---- MODULE Spec2Model ----
(***************************************************************************)
(* Downloader (libtextosaurus/common/network-web/downloader.cpp): one      *)
(* object that starts HTTP exchanges on a network-access manager, follows  *)
(* redirects, and aborts the active reply when a single-shot timer fires.  *)
(*                                                                         *)
(* Everything runs on one event loop, so every slot and every public       *)
(* method is one atomic action.  The transport (QNetworkAccessManager,     *)
(* QNetworkReply) and the timer (QTimer) are the environment: a reply in   *)
(* flight may tick progress and then finishes once; abort() marks the      *)
(* reply, whose finished signal is then delivered with the abort error.    *)
(*                                                                         *)
(* Strings that the code takes apart or glues together (URLs) are          *)
(* sequences of tokens, so that concatenation and parsing are computed.    *)
(***************************************************************************)
EXTENDS Integers, Sequences, FiniteSets, TLC

VARIABLES
  m_activeReply,     \* id of the reply m_activeReply points to, NULL for nullptr
  m_timer,           \* the QTimer: interval, armed or not, time left
  m_customHeaders,   \* QHash name -> value
  m_inputData,       \* body kept for redirect replay
  m_targetProtected,
  m_targetUsername,
  m_targetPassword,
  m_lastOutputData,
  m_lastContentType,
  m_lastOutputError,
  replies,           \* every QNetworkReply created so far, by id
  emitted,           \* the signal the last step emitted
  completedCount,    \* per dispatch: completed signals emitted for its chain
  terminated,        \* dispatches whose chain got its non-redirect reply
  timedOut,          \* replies the timer's cancel() has aborted
  dispatched,        \* manipulateData calls made so far
  appended,          \* appendRawHeader calls made so far
  quiet,             \* time units since the timer was last started
  lastStep,          \* what the last step was
  crashed            \* the process died on a null dereference

vars == <<m_activeReply, m_timer, m_customHeaders, m_inputData, m_targetProtected,
          m_targetUsername, m_targetPassword, m_lastOutputData, m_lastContentType,
          m_lastOutputError, replies, emitted, completedCount, terminated,
          timedOut, dispatched, appended, quiet, lastStep, crashed>>

(***************************************************************************)
(* Bounds of the model.                                                    *)
(***************************************************************************)
MaxDispatch == 2

MaxReplies == 3

MaxDispatchRedirect == 1

MaxRepliesRedirect == 3

MaxDispatchHeaders == 1

MaxRepliesHeaders == 2

MaxAppends == 2

MaxDispatchLoop == 1

MaxRepliesLoop == 4

MaxDispatchBudget == 2

MaxRepliesBudget == 3

MaxDispatchReplay == 2

MaxRepliesReplay == 3

MaxDispatchLive == 2

MaxRepliesLive == 3

MaxDispatchMethod == 2

MaxRepliesMethod == 2

(***************************************************************************)
(* Program constants.                                                      *)
(***************************************************************************)
NULL == 0

DOWNLOAD_TIMEOUT == 5000

HTTP_HEADERS_CONTENT_TYPE == "Content-Type"

FormUrlEncoded == "application/x-www-form-urlencoded"

\* QNetworkAccessManager::Operation
GetOperation == "Get"
PostOperation == "Post"
PutOperation == "Put"
DeleteOperation == "Delete"
HeadOperation == "Head"

\* QNetworkReply::NetworkError
NoError == "NoError"
OperationCanceledError == "OperationCanceledError"
HostNotFoundError == "HostNotFoundError"

(***************************************************************************)
(* QUrl over token sequences.  A URL string is a sequence of tokens; the   *)
(* token "://" ends a scheme and the token "/" starts the path.            *)
(***************************************************************************)
Schemes == {"http", "https"}

RECURSIVE FirstSlash(_, _)
FirstSlash(s, i) ==
  IF i > Len(s) THEN Len(s) + 1
  ELSE IF s[i] = "/" THEN i
  ELSE FirstSlash(s, i + 1)

\* QUrl(QString): scheme, host (authority up to the first "/"), path
QUrlParse(s) ==
  IF Len(s) >= 2 /\ s[1] \in Schemes /\ s[2] = "://"
  THEN LET k == FirstSlash(s, 3)
       IN [scheme |-> s[1],
           host   |-> SubSeq(s, 3, k - 1),
           path   |-> SubSeq(s, k, Len(s))]
  ELSE [scheme |-> "", host |-> <<>>, path |-> s]

\* QUrl::toString()
QUrlToString(u) ==
  (IF u.scheme = "" THEN <<>> ELSE <<u.scheme, "://">>) \o u.host \o u.path

\* QUrl::isValid(): the default-constructed (empty) URL is not valid
QUrlIsValid(u) == QUrlToString(u) # <<>>

\* QVariant().toUrl(): the URL of a reply without RedirectionTargetAttribute
NoRedirect == QUrlParse(<<>>)

(***************************************************************************)
(* QTimer, single shot.  start() arms it for the whole interval; an        *)
(* interval of 0 times out at once, a negative interval cannot be started. *)
(***************************************************************************)
TimerStart(t) ==
  IF t.interval >= 0
  THEN [t EXCEPT !.active = TRUE, !.remaining = t.interval]
  ELSE [t EXCEPT !.active = FALSE, !.remaining = 0]

TimerStop(t) == [t EXCEPT !.active = FALSE, !.remaining = 0]

\* setInterval() on a running timer restarts it with the new interval
TimerSetInterval(t, msec) ==
  IF t.active
  THEN TimerStart([t EXCEPT !.interval = msec])
  ELSE [t EXCEPT !.interval = msec]

(***************************************************************************)
(* Raw headers: a function from the names set to their values.             *)
(***************************************************************************)
NoHeaders == [n \in {} |-> ""]

\* QNetworkRequest::rawHeader: empty when the header is not set
RawHeader(h, name) == IF name \in DOMAIN h THEN h[name] ELSE ""

\* QNetworkRequest::setRawHeader / QHash::insert: one entry per name
SetRawHeader(h, name, value) ==
  [n \in (DOMAIN h) \cup {name} |-> IF n = name THEN value ELSE h[n]]

Init ==
  /\ m_activeReply = NULL
  /\ m_timer = [interval |-> DOWNLOAD_TIMEOUT, active |-> FALSE, remaining |-> 0]
  /\ m_customHeaders = NoHeaders
  /\ m_inputData = ""
  /\ m_targetProtected = FALSE
  /\ m_targetUsername = ""
  /\ m_targetPassword = ""
  /\ m_lastOutputData = ""
  /\ m_lastContentType = ""
  /\ m_lastOutputError = NoError
  /\ replies = <<>>
  /\ emitted = [signal |-> "none"]
  /\ completedCount = <<>>
  /\ terminated = {}
  /\ timedOut = {}
  /\ dispatched = 0
  /\ appended = 0
  /\ quiet = 0
  /\ lastStep = [op |-> "init"]
  /\ crashed = FALSE

(***************************************************************************)
(* The replies.  A reply is running until its finished signal has been     *)
(* delivered; deleteLater() dooms it, and a doomed reply that is still     *)
(* running is destroyed when control returns to the event loop.            *)
(***************************************************************************)
ReplyIds == 1..Len(replies)

Running == {r \in ReplyIds : replies[r].state = "running"}

Reply(operation, request, data, cred, chain, hop) ==
  [operation |-> operation,
   request   |-> request,
   data      |-> data,
   protected |-> cred.protected,
   username  |-> cred.username,
   password  |-> cred.password,
   state     |-> "running",
   aborted   |-> FALSE,
   doomed    |-> FALSE,
   chain     |-> chain,
   hop       |-> hop]

\* m_activeReply->deleteLater() on a non-null pointer
DeleteLater(rs, id) == [rs EXCEPT ![id].doomed = TRUE]

\* m_activeReply->abort(): no effect on a reply that has finished
Abort(rs, id) ==
  IF rs[id].state = "running" THEN [rs EXCEPT ![id].aborted = TRUE] ELSE rs

(***************************************************************************)
(* run*Request(request[, data]): start the timer, start the exchange,      *)
(* point m_activeReply at the new reply, and tag it with the credentials.  *)
(* t and rs are the timer and the replies as the caller left them.         *)
(***************************************************************************)
runDeleteRequest(request, t, rs, cred, chain, hop) ==
  /\ m_timer' = TimerStart(t)
  /\ replies' = Append(rs, Reply(DeleteOperation, request, "", cred, chain, hop))
  /\ m_activeReply' = Len(rs) + 1
  /\ quiet' = 0

runPutRequest(request, data, t, rs, cred, chain, hop) ==
  /\ m_timer' = TimerStart(t)
  /\ replies' = Append(rs, Reply(PutOperation, request, data, cred, chain, hop))
  /\ m_activeReply' = Len(rs) + 1
  /\ quiet' = 0

runPostRequest(request, data, t, rs, cred, chain, hop) ==
  /\ m_timer' = TimerStart(t)
  /\ replies' = Append(rs, Reply(PostOperation, request, data, cred, chain, hop))
  /\ m_activeReply' = Len(rs) + 1
  /\ quiet' = 0

runGetRequest(request, t, rs, cred, chain, hop) ==
  /\ m_timer' = TimerStart(t)
  /\ replies' = Append(rs, Reply(GetOperation, request, "", cred, chain, hop))
  /\ m_activeReply' = Len(rs) + 1
  /\ quiet' = 0

Startable == {GetOperation, PostOperation, PutOperation, DeleteOperation}

(***************************************************************************)
(* manipulateData                                                          *)
(***************************************************************************)
\* a POST whose content type is always the default
MutBuildRequestForceDefault(url, operation) ==
  [url |-> QUrlParse(url),
   headers |-> IF operation = PostOperation
               THEN SetRawHeader(m_customHeaders, HTTP_HEADERS_CONTENT_TYPE,
                                 FormUrlEncoded)
               ELSE m_customHeaders]

\* lines 38-51: the custom headers, and the default content type of a POST
BuildRequest(url, operation) ==
  LET custom == m_customHeaders
      headers ==
        IF operation = PostOperation /\ RawHeader(custom, HTTP_HEADERS_CONTENT_TYPE) = ""
        THEN SetRawHeader(custom, HTTP_HEADERS_CONTENT_TYPE, FormUrlEncoded)
        ELSE custom
  IN [url |-> QUrlParse(url), headers |-> headers]

\* an unsupported method that is sent as a GET
MutUnsupportedOperationAsGet(request, t, cred, chain) ==
  runGetRequest(request, t, replies, cred, chain, 0)

\* lines 63-75: no branch of the chain matches, nothing is started
UnsupportedOperation(request, t, cred, chain) ==
  /\ m_timer' = t
  /\ quiet' = IF m_timer.active THEN 0 ELSE quiet
  /\ UNCHANGED <<replies, m_activeReply>>

manipulateData(url, operation, data, timeout, protected_contents, username, password) ==
  LET request == BuildRequest(url, operation)
      t == TimerSetInterval(m_timer, timeout)
      cred == [protected |-> protected_contents, username |-> username,
               password |-> password]
      chain == dispatched + 1
  IN /\ ~crashed
     /\ dispatched' = chain
     /\ completedCount' = Append(completedCount, 0)
     /\ m_inputData' = data
     /\ m_targetProtected' = protected_contents
     /\ m_targetUsername' = username
     /\ m_targetPassword' = password
     /\ IF operation = PostOperation
          THEN runPostRequest(request, data, t, replies, cred, chain, 0)
        ELSE IF operation = GetOperation
          THEN runGetRequest(request, t, replies, cred, chain, 0)
        ELSE IF operation = PutOperation
          THEN runPutRequest(request, data, t, replies, cred, chain, 0)
        ELSE IF operation = DeleteOperation
          THEN runDeleteRequest(request, t, replies, cred, chain, 0)
        ELSE UnsupportedOperation(request, t, cred, chain)
     /\ emitted' = [signal |-> "none"]
     /\ lastStep' = [op |-> "manipulateData", operation |-> operation,
                     timeout |-> timeout, data |-> data, cred |-> cred]
     /\ UNCHANGED <<m_customHeaders, m_lastOutputData, m_lastContentType,
                    m_lastOutputError, terminated, timedOut, appended, crashed>>

downloadFile(url, timeout, protected_contents, username, password) ==
  manipulateData(url, GetOperation, "", timeout, protected_contents, username, password)

uploadFile(url, data, timeout, protected_contents, username, password) ==
  manipulateData(url, PostOperation, data, timeout, protected_contents, username, password)

(***************************************************************************)
(* finished(): the slot connected to every reply's finished signal.  r is  *)
(* sender(); res is what the reply holds when it finishes: its error, its  *)
(* redirection target (NoRedirect when the attribute is not set), the body *)
(* to read and its content type.                                           *)
(***************************************************************************)
\* a follow-up that always goes out as a GET
MutReplyOperationGet(reply) == GetOperation

\* line 80
ReplyOperation(reply) == reply.operation

\* a follow-up that resolves every target against the redirected request
MutRedirectUrlAlwaysResolved(request_url, redirection_url) ==
  QUrlParse(<<request_url.scheme, "://">> \o request_url.host
            \o QUrlToString(redirection_url))

\* lines 91-96: the URL of the follow-up request
RedirectUrl(request_url, redirection_url) ==
  IF redirection_url.host = <<>>
  THEN QUrlParse(<<request_url.scheme, "://">> \o request_url.host
                 \o QUrlToString(redirection_url))
  ELSE redirection_url

\* a follow-up request that takes its headers from the custom headers
MutRedirectRequestFreshHeaders(reply, redirection_url) ==
  [url |-> RedirectUrl(reply.request.url, redirection_url),
   headers |-> m_customHeaders]

\* lines 89-96: the follow-up request is the redirected request with a new URL
RedirectRequest(reply, redirection_url) ==
  [reply.request EXCEPT !.url = RedirectUrl(reply.request.url, redirection_url)]

\* a follow-up that gives up after the second hop of a chain
MutFollowRedirectBounded(reply_operation, request, t, rs, cred, chain, hop) ==
  IF hop <= 2 /\ reply_operation = GetOperation
    THEN runGetRequest(request, t, rs, cred, chain, hop)
  ELSE IF hop <= 2 /\ reply_operation = PostOperation
    THEN runPostRequest(request, m_inputData, t, rs, cred, chain, hop)
  ELSE IF hop <= 2 /\ reply_operation = PutOperation
    THEN runPutRequest(request, m_inputData, t, rs, cred, chain, hop)
  ELSE IF hop <= 2 /\ reply_operation = DeleteOperation
    THEN runDeleteRequest(request, t, rs, cred, chain, hop)
  ELSE /\ m_timer' = t
       /\ replies' = rs
       /\ m_activeReply' = NULL
       /\ UNCHANGED quiet

\* lines 101-112
FollowRedirect(reply_operation, request, t, rs, cred, chain, hop) ==
  IF reply_operation = GetOperation
    THEN runGetRequest(request, t, rs, cred, chain, hop)
  ELSE IF reply_operation = PostOperation
    THEN runPostRequest(request, m_inputData, t, rs, cred, chain, hop)
  ELSE IF reply_operation = PutOperation
    THEN runPutRequest(request, m_inputData, t, rs, cred, chain, hop)
  ELSE IF reply_operation = DeleteOperation
    THEN runDeleteRequest(request, t, rs, cred, chain, hop)
  ELSE /\ m_timer' = t
       /\ replies' = rs
       /\ m_activeReply' = NULL
       /\ UNCHANGED quiet

\* a completed signal that leaves the last outcome as it was
MutCompleteKeepsOutcome(res, chain) ==
  /\ UNCHANGED <<m_lastOutputData, m_lastContentType, m_lastOutputError>>
  /\ emitted' = [signal |-> "completed", error |-> res.error, data |-> res.data]
  /\ completedCount' = [completedCount EXCEPT ![chain] = @ + 1]

\* lines 117-119 and 123
Complete(res, chain) ==
  /\ m_lastOutputData' = res.data
  /\ m_lastContentType' = res.contentType
  /\ m_lastOutputError' = res.error
  /\ emitted' = [signal |-> "completed", error |-> res.error, data |-> res.data]
  /\ completedCount' = [completedCount EXCEPT ![chain] = @ + 1]

finished(r, res) ==
  LET reply == replies[r]
      reply_operation == ReplyOperation(reply)
      t == TimerStop(m_timer)
      redirection_url == res.redirect
      rs0 == [replies EXCEPT ![r].state = "finished"]
      cred == [protected |-> m_targetProtected, username |-> m_targetUsername,
               password |-> m_targetPassword]
  IN
  /\ ~crashed
  /\ r \in Running
  /\ lastStep' = [op |-> "finished", reply |-> r, active |-> m_activeReply,
                  redirect |-> redirection_url, error |-> res.error,
                  data |-> res.data, contentType |-> res.contentType]
  /\ UNCHANGED <<m_customHeaders, m_inputData, m_targetProtected, m_targetUsername,
                 m_targetPassword, timedOut, dispatched, appended>>
  /\ IF QUrlIsValid(redirection_url)
     THEN LET request == RedirectRequest(reply, redirection_url)
          IN /\ emitted' = [signal |-> "none"]
             /\ UNCHANGED <<m_lastOutputData, m_lastContentType, m_lastOutputError,
                            completedCount, terminated>>
             /\ \/ /\ m_activeReply # NULL
                   /\ crashed' = FALSE
                   /\ FollowRedirect(reply_operation, request, t,
                                     DeleteLater(rs0, m_activeReply), cred,
                                     reply.chain, reply.hop + 1)
                \* line 98 with m_activeReply == nullptr: the call goes through
                \/ /\ m_activeReply = NULL
                   /\ crashed' = FALSE
                   /\ FollowRedirect(reply_operation, request, t, rs0, cred,
                                     reply.chain, reply.hop + 1)
                \* line 98 with m_activeReply == nullptr: the process dies
                \/ /\ m_activeReply = NULL
                   /\ crashed' = TRUE
                   /\ m_timer' = t
                   /\ replies' = rs0
                   /\ UNCHANGED <<m_activeReply, quiet>>
     ELSE /\ terminated' = terminated \cup {reply.chain}
          /\ m_timer' = t
          /\ UNCHANGED quiet
          /\ \/ /\ m_activeReply # NULL
                /\ crashed' = FALSE
                /\ replies' = DeleteLater(rs0, m_activeReply)
                /\ m_activeReply' = NULL
                /\ Complete(res, reply.chain)
             \* line 120 with m_activeReply == nullptr: the call goes through
             \/ /\ m_activeReply = NULL
                /\ crashed' = FALSE
                /\ replies' = rs0
                /\ m_activeReply' = NULL
                /\ Complete(res, reply.chain)
             \* line 120 with m_activeReply == nullptr: the process dies
             \/ /\ m_activeReply = NULL
                /\ crashed' = TRUE
                /\ replies' = rs0
                /\ m_lastOutputData' = res.data
                /\ m_lastContentType' = res.contentType
                /\ m_lastOutputError' = res.error
                /\ emitted' = [signal |-> "none"]
                /\ UNCHANGED <<m_activeReply, completedCount>>

(***************************************************************************)
(* progressInternal, cancel, appendRawHeader                               *)
(***************************************************************************)
\* a progress tick that leaves the countdown running
MutProgressTimerNoRestart(t) == t

\* lines 128-130
ProgressTimer(t) == IF t.interval > 0 THEN TimerStart(t) ELSE t

progressInternal(bytes_received, bytes_total) ==
  /\ ~crashed
  /\ m_timer' = ProgressTimer(m_timer)
  /\ quiet' = 0
  /\ emitted' = [signal |-> "progress", received |-> bytes_received,
                 total |-> bytes_total]
  /\ lastStep' = [op |-> "progressInternal", received |-> bytes_received,
                  total |-> bytes_total, left |-> m_timer.remaining]
  /\ UNCHANGED <<m_activeReply, m_customHeaders, m_inputData, m_targetProtected,
                 m_targetUsername, m_targetPassword, m_lastOutputData,
                 m_lastContentType, m_lastOutputError, replies, completedCount,
                 terminated, timedOut, dispatched, appended, crashed>>

\* lines 176-178, 193-199: the getters
lastContentType == m_lastContentType

lastOutputError == m_lastOutputError

lastOutputData == m_lastOutputData

\* a cancel that aborts every reply in flight, whatever m_activeReply is
MutCancelledEveryRunning(rs, active) ==
  [r \in DOMAIN rs |->
     IF rs[r].state = "running" THEN [rs[r] EXCEPT !.aborted = TRUE] ELSE rs[r]]

\* lines 181-184: the replies after cancel()
Cancelled(rs, active) == IF active # NULL THEN Abort(rs, active) ELSE rs

cancel ==
  /\ ~crashed
  /\ replies' = Cancelled(replies, m_activeReply)
  /\ emitted' = [signal |-> "none"]
  /\ UNCHANGED <<m_activeReply, m_customHeaders, m_inputData, m_targetProtected,
                 m_targetUsername, m_targetPassword, m_lastOutputData,
                 m_lastContentType, m_lastOutputError, completedCount,
                 terminated, dispatched, appended, quiet, crashed>>

\* an append that stores empty values too
MutAppendedHeadersAlways(h, name, value) == SetRawHeader(h, name, value)

\* lines 188-190: the custom headers after appendRawHeader(name, value)
AppendedHeaders(h, name, value) ==
  IF value # "" THEN SetRawHeader(h, name, value) ELSE h

appendRawHeader(name, value) ==
  /\ ~crashed
  /\ appended' = appended + 1
  /\ m_customHeaders' = AppendedHeaders(m_customHeaders, name, value)
  /\ emitted' = [signal |-> "none"]
  /\ lastStep' = [op |-> "appendRawHeader", name |-> name, value |-> value,
                  before |-> m_customHeaders]
  /\ UNCHANGED <<m_activeReply, m_timer, m_inputData, m_targetProtected,
                 m_targetUsername, m_targetPassword, m_lastOutputData,
                 m_lastContentType, m_lastOutputError, replies, completedCount,
                 terminated, timedOut, dispatched, quiet, crashed>>

(***************************************************************************)
(* The callers, the transport and the clock.  E is the environment: the    *)
(* sets the callers draw their arguments from and the redirection targets  *)
(* the servers answer with.                                                *)
(***************************************************************************)
UrlA == <<"http", "://", "a.example", "/", "old">>

UrlB == <<"https", "://", "b.example", "/", "old">>

\* Location values: an absolute path, a relative path, an absolute URL
TargetPath == <<"/", "new">>

TargetRelative == <<"new">>

TargetAbsolute == <<"https", "://", "b.example", "/", "new">>

Anonymous == [protected |-> FALSE, username |-> "", password |-> ""]

Protected == [protected |-> TRUE, username |-> "u", password |-> "p"]

HeaderNames == {HTTP_HEADERS_CONTENT_TYPE, "X-Auth"}

HeaderValues == {"", "v1", "v2"}

ProgressArgs == {<<1, 2>>, <<2, 2>>}

\* a reply that ends with a body, and one that ends with a network error
ResultOk ==
  [error |-> NoError, redirect |-> NoRedirect, data |-> "body",
   contentType |-> "text/html"]

ResultError ==
  [error |-> HostNotFoundError, redirect |-> NoRedirect, data |-> "",
   contentType |-> ""]

RedirectResults(E) ==
  {[error |-> NoError, redirect |-> QUrlParse(target), data |-> "",
    contentType |-> ""] : target \in E.targets}

AbortResult ==
  [error |-> OperationCanceledError, redirect |-> NoRedirect, data |-> "",
   contentType |-> ""]

\* What a reply may hold when it finishes; redirects stop at E.maxReplies.
ResultsFor(E, r) ==
  IF replies[r].aborted THEN {AbortResult}
  ELSE E.finals
       \cup (IF Len(replies) < E.maxReplies THEN RedirectResults(E) ELSE {})

\* The callers stop at E.maxDispatch calls and E.maxReplies exchanges.
MayDispatch(E) == dispatched < E.maxDispatch /\ Len(replies) < E.maxReplies

DownloadFile(E) ==
  /\ MayDispatch(E)
  /\ \E url \in E.urls, timeout \in E.timeouts, c \in E.credentials :
       downloadFile(url, timeout, c.protected, c.username, c.password)

UploadFile(E) ==
  /\ MayDispatch(E)
  /\ \E url \in E.urls, data \in E.bodies, timeout \in E.timeouts,
        c \in E.credentials :
       uploadFile(url, data, timeout, c.protected, c.username, c.password)

ManipulateData(E) ==
  /\ MayDispatch(E)
  /\ \E url \in E.urls, operation \in E.operations, data \in E.bodies,
        timeout \in E.timeouts, c \in E.credentials :
       manipulateData(url, operation, data, timeout, c.protected, c.username,
                      c.password)

AppendRawHeader ==
  /\ appended < MaxAppends
  /\ \E name \in HeaderNames, value \in HeaderValues : appendRawHeader(name, value)

\* a caller invokes cancel()
Cancel ==
  /\ cancel
  /\ lastStep' = [op |-> "cancel", active |-> m_activeReply]
  /\ UNCHANGED <<m_timer, timedOut>>

\* line 17: the single-shot timer times out and its signal runs cancel()
TimerFire ==
  /\ m_timer.active
  /\ m_timer.remaining = 0
  /\ cancel
  /\ lastStep' = [op |-> "timeout", active |-> m_activeReply]
  /\ m_timer' = [m_timer EXCEPT !.active = FALSE]
  /\ timedOut' = timedOut \cup (IF m_activeReply # NULL THEN {m_activeReply} ELSE {})

\* one unit of time passes on the running timer
Tick ==
  /\ ~crashed
  /\ m_timer.active
  /\ m_timer.remaining > 0
  /\ m_timer' = [m_timer EXCEPT !.remaining = @ - 1]
  /\ quiet' = quiet + 1
  /\ emitted' = [signal |-> "none"]
  /\ lastStep' = [op |-> "tick"]
  /\ UNCHANGED <<m_activeReply, m_customHeaders, m_inputData, m_targetProtected,
                 m_targetUsername, m_targetPassword, m_lastOutputData,
                 m_lastContentType, m_lastOutputError, replies, completedCount,
                 terminated, timedOut, dispatched, appended, crashed>>

\* a reply in flight reports downloadProgress
TransportProgress ==
  \E r \in Running, args \in ProgressArgs :
    /\ ~replies[r].aborted
    /\ progressInternal(args[1], args[2])

\* a reply in flight emits finished
TransportFinished(E) ==
  \E r \in Running : \E res \in ResultsFor(E, r) : finished(r, res)

\* the event loop destroys a reply that deleteLater() doomed while in flight
DeferredDelete ==
  \E r \in Running :
    /\ ~crashed
    /\ replies[r].doomed
    /\ replies' = [replies EXCEPT ![r].state = "deleted"]
    /\ emitted' = [signal |-> "none"]
    /\ lastStep' = [op |-> "deferredDelete", reply |-> r]
    /\ UNCHANGED <<m_activeReply, m_timer, m_customHeaders, m_inputData,
                   m_targetProtected, m_targetUsername, m_targetPassword,
                   m_lastOutputData, m_lastContentType, m_lastOutputError,
                   completedCount, terminated, timedOut, dispatched, appended,
                   quiet, crashed>>

(***************************************************************************)
(* Spec: the protocol.  Callers that dispatch at any time, with every kind *)
(* of timeout, cancel at any time; servers that redirect or answer.        *)
(***************************************************************************)
EnvProtocol ==
  [urls        |-> {UrlA},
   operations  |-> {GetOperation},
   bodies      |-> {"d1"},
   timeouts    |-> {-1, 0, 2},
   credentials |-> {Anonymous},
   targets     |-> {TargetPath},
   finals      |-> {ResultOk},
   maxDispatch |-> MaxDispatch,
   maxReplies  |-> MaxReplies]

Next ==
  \/ DownloadFile(EnvProtocol)
  \/ UploadFile(EnvProtocol)
  \/ ManipulateData(EnvProtocol)
  \/ Cancel
  \/ TimerFire
  \/ Tick
  \/ TransportProgress
  \/ TransportFinished(EnvProtocol)
  \/ DeferredDelete

Spec == Init /\ [][Next]_vars

(***************************************************************************)
(* SpecRedirect: redirection.  Every startable method, two origins, every  *)
(* kind of redirection target; the callers pass a negative timeout, so the *)
(* timer is never armed, and wait for one chain before the next dispatch,  *)
(* so no reply is doomed while in flight.                                  *)
(***************************************************************************)
EnvRedirect ==
  [urls        |-> {UrlA, UrlB},
   operations  |-> Startable,
   bodies      |-> {"d1"},
   timeouts    |-> {-1},
   credentials |-> {Anonymous},
   targets     |-> {TargetPath, TargetRelative, TargetAbsolute},
   finals      |-> {ResultOk, ResultError},
   maxDispatch |-> MaxDispatchRedirect,
   maxReplies  |-> MaxRepliesRedirect]

NextRedirect ==
  \/ ManipulateData(EnvRedirect)
  \/ Cancel
  \/ TransportProgress
  \/ TransportFinished(EnvRedirect)

SpecRedirect == Init /\ [][NextRedirect]_vars

(***************************************************************************)
(* SpecHeaders: the custom headers.  Callers that append headers at any    *)
(* time and dispatch every method, the unsupported one included, with a    *)
(* negative timeout.                                                       *)
(***************************************************************************)
EnvHeaders ==
  [urls        |-> {UrlA},
   operations  |-> Startable \cup {HeadOperation},
   bodies      |-> {"d1"},
   timeouts    |-> {-1},
   credentials |-> {Anonymous},
   targets     |-> {TargetAbsolute},
   finals      |-> {ResultOk, ResultError},
   maxDispatch |-> MaxDispatchHeaders,
   maxReplies  |-> MaxRepliesHeaders]

NextHeaders ==
  \/ AppendRawHeader
  \/ ManipulateData(EnvHeaders)
  \/ TransportFinished(EnvHeaders)

SpecHeaders == Init /\ [][NextHeaders]_vars

(***************************************************************************)
(* SpecLoop: a redirect loop.  Every server answers every request with a   *)
(* redirection, and nobody cancels: no timeout, no cancel().               *)
(***************************************************************************)
EnvLoop ==
  [urls        |-> {UrlA},
   operations  |-> Startable,
   bodies      |-> {"d1"},
   timeouts    |-> {-1},
   credentials |-> {Anonymous},
   targets     |-> {TargetPath, TargetAbsolute},
   finals      |-> {},
   maxDispatch |-> MaxDispatchLoop,
   maxReplies  |-> MaxRepliesLoop]

NextLoop ==
  \/ ManipulateData(EnvLoop)
  \/ TransportProgress
  \/ TransportFinished(EnvLoop)

SpecLoop == Init /\ [][NextLoop]_vars

(***************************************************************************)
(* SpecBudget: the timeout of a chain.  A caller that downloads with a     *)
(* timeout of 2 on its first call and of 1 on every later call, so that    *)
(* the timeout a chain was started with is known from the chain's number;  *)
(* servers that redirect or answer, and the clock.                         *)
(***************************************************************************)
TimeoutOfCall(d) == IF d = 1 THEN 2 ELSE 1

EnvBudget ==
  [urls        |-> {UrlA},
   operations  |-> {GetOperation},
   bodies      |-> {""},
   timeouts    |-> {TimeoutOfCall(dispatched + 1)},
   credentials |-> {Anonymous},
   targets     |-> {TargetPath},
   finals      |-> {ResultOk},
   maxDispatch |-> MaxDispatchBudget,
   maxReplies  |-> MaxRepliesBudget]

NextBudget ==
  \/ DownloadFile(EnvBudget)
  \/ TimerFire
  \/ Tick
  \/ TransportProgress
  \/ TransportFinished(EnvBudget)
  \/ DeferredDelete

SpecBudget == Init /\ [][NextBudget]_vars

(***************************************************************************)
(* SpecReplay: what a redirect follow-up replays.  Callers that dispatch   *)
(* every startable method at any time, with two bodies and with or without *)
(* credentials, and no timeout; servers that redirect or answer.           *)
(***************************************************************************)
EnvReplay ==
  [urls        |-> {UrlA},
   operations  |-> Startable,
   bodies      |-> {"d1", "d2"},
   timeouts    |-> {-1},
   credentials |-> {Anonymous, Protected},
   targets     |-> {TargetPath},
   finals      |-> {ResultOk},
   maxDispatch |-> MaxDispatchReplay,
   maxReplies  |-> MaxRepliesReplay]

NextReplay ==
  \/ ManipulateData(EnvReplay)
  \/ TransportFinished(EnvReplay)
  \/ DeferredDelete

SpecReplay == Init /\ [][NextReplay]_vars

(***************************************************************************)
(* SpecLive: progress under a positive timeout.  Callers that download     *)
(* with a timeout of 1 at any time; servers that redirect, answer, report  *)
(* progress or stay silent.  Time passes and an armed timer that has run   *)
(* down fires (the event loop serves its timers), and a reply that was     *)
(* aborted delivers its finished signal (QNetworkReply::abort() emits      *)
(* finished); a reply that was not aborted may stay silent for ever.       *)
(***************************************************************************)
EnvLive ==
  [urls        |-> {UrlA},
   operations  |-> {GetOperation},
   bodies      |-> {""},
   timeouts    |-> {1},
   credentials |-> {Anonymous},
   targets     |-> {TargetPath},
   finals      |-> {ResultOk},
   maxDispatch |-> MaxDispatchLive,
   maxReplies  |-> MaxRepliesLive]

\* the finished signal of a reply that abort() was called on
AbortedFinished ==
  \E r \in Running : replies[r].aborted /\ finished(r, AbortResult)

NextLive ==
  \/ DownloadFile(EnvLive)
  \/ TimerFire
  \/ Tick
  \/ TransportProgress
  \/ TransportFinished(EnvLive)
  \/ DeferredDelete

SpecLive ==
  /\ Init
  /\ [][NextLive]_vars
  /\ WF_vars(Tick)
  /\ WF_vars(TimerFire)
  /\ WF_vars(AbortedFinished)

(***************************************************************************)
(* SpecMethod: the unsupported method.  Callers that dispatch GET or HEAD  *)
(* at any time, with a timeout of 0 or 2; servers that redirect or answer, *)
(* and the clock.                                                          *)
(***************************************************************************)
EnvMethod ==
  [urls        |-> {UrlA},
   operations  |-> {GetOperation, HeadOperation},
   bodies      |-> {"d1", "d2"},
   timeouts    |-> {0, 2},
   credentials |-> {Anonymous, Protected},
   targets     |-> {TargetPath},
   finals      |-> {ResultOk},
   maxDispatch |-> MaxDispatchMethod,
   maxReplies  |-> MaxRepliesMethod]

NextMethod ==
  \/ ManipulateData(EnvMethod)
  \/ TimerFire
  \/ Tick
  \/ TransportFinished(EnvMethod)
  \/ DeferredDelete

SpecMethod == Init /\ [][NextMethod]_vars

(***************************************************************************)
(* The claims.                                                             *)
(***************************************************************************)

\* C1: at most one transport exchange started by the Downloader is in
\* flight at any time (under Spec).
C1_AtMostOneInFlight == Cardinality(Running) <= 1

\* C2: a chain whose non-redirect reply has been handled has emitted completed
\* exactly once, and a chain that has not got it yet has emitted none
\* (under Spec).
C2_CompletedOncePerChain ==
  \A d \in 1..dispatched :
    completedCount[d] = IF d \in terminated THEN 1 ELSE 0

\* C3: the timer fires only when the timeout of the last dispatch is
\* positive: with a timeout <= 0 it never runs cancel() (under Spec).
C3_NoTimeoutUnlessPositive ==
  lastStep.op = "timeout" => m_timer.interval > 0

\* C4: the timer firing on an active operation aborts it as cancel() does and
\* emits nothing; the aborted operation is not destroyed before its finished
\* signal; and its finished() emits completed with the abort error
\* (under Spec).
C4_TimeoutIsCancel ==
  [][/\ (lastStep'.op = "timeout" /\ m_activeReply # NULL) =>
          /\ replies' = Cancelled(replies, m_activeReply)
          /\ replies'[m_activeReply].aborted
          /\ m_activeReply' = m_activeReply
          /\ emitted'.signal = "none"
     /\ lastStep'.op = "deferredDelete" => lastStep'.reply \notin timedOut
     /\ (lastStep'.op = "finished" /\ lastStep'.reply \in timedOut) =>
          emitted' = [signal |-> "completed", error |-> OperationCanceledError,
                      data |-> AbortResult.data]
    ]_vars

\* C5: every reply of a redirect chain, at every hop, has the method of the
\* operation the chain started with (under SpecRedirect).
C5_RedirectKeepsMethod ==
  \A r \in ReplyIds, q \in ReplyIds :
    replies[r].chain = replies[q].chain =>
      replies[r].operation = replies[q].operation

C5_Witness ==
  \E r \in ReplyIds : replies[r].hop = 2 /\ replies[r].operation = PostOperation

\* C6: after finished() followed a valid redirection target with an empty
\* host, the follow-up request has the scheme and the host of the redirected
\* request and the path of the target (under SpecRedirect).
C6_HostlessRedirectKeepsOrigin ==
  (/\ lastStep.op = "finished"
   /\ QUrlIsValid(lastStep.redirect)
   /\ lastStep.redirect.host = <<>>
   /\ m_activeReply # NULL) =>
    LET old == replies[lastStep.reply].request.url
        new == replies[m_activeReply].request.url
    IN /\ new.scheme = old.scheme
       /\ new.host = old.host
       /\ new.path = lastStep.redirect.path

\* C7: after finished() followed a valid redirection target with a non-empty
\* host, the follow-up request's URL is the target itself
\* (under SpecRedirect).
C7_AbsoluteRedirectVerbatim ==
  (/\ lastStep.op = "finished"
   /\ QUrlIsValid(lastStep.redirect)
   /\ lastStep.redirect.host # <<>>
   /\ m_activeReply # NULL) =>
    replies[m_activeReply].request.url = lastStep.redirect

C7_Witness ==
  /\ lastStep.op = "finished"
  /\ lastStep.redirect = QUrlParse(TargetAbsolute)
  /\ m_activeReply # NULL
  /\ replies[lastStep.reply].request.url = QUrlParse(UrlA)
  /\ replies[m_activeReply].request.url.host = <<"b.example">>

\* C8: the request of a dispatch carries the custom headers, plus the default
\* content type when it is a POST and no content type was set; a content type
\* that was set is sent as it is, and no other method gets one added
\* (under SpecHeaders).
C8_DefaultContentType ==
  /\ (lastStep.op = "manipulateData" /\ lastStep.operation \in Startable) =>
      LET sent == replies[m_activeReply].request.headers
      IN IF /\ lastStep.operation = PostOperation
            /\ HTTP_HEADERS_CONTENT_TYPE \notin DOMAIN m_customHeaders
         THEN /\ sent[HTTP_HEADERS_CONTENT_TYPE] = FormUrlEncoded
              /\ \A n \in DOMAIN m_customHeaders : sent[n] = m_customHeaders[n]
              /\ DOMAIN sent =
                   DOMAIN m_customHeaders \cup {HTTP_HEADERS_CONTENT_TYPE}
         ELSE sent = m_customHeaders
  /\ \A r \in ReplyIds :
       replies[r].operation = PostOperation =>
         RawHeader(replies[r].request.headers, HTTP_HEADERS_CONTENT_TYPE) # ""

C8_Witness ==
  /\ lastStep.op = "manipulateData"
  /\ lastStep.operation = PostOperation
  /\ DOMAIN m_customHeaders = {"X-Auth"}
  /\ replies[m_activeReply].request.headers[HTTP_HEADERS_CONTENT_TYPE] = FormUrlEncoded

\* C9: appendRawHeader with an empty value leaves the custom headers as they
\* were; with a non-empty value the name maps to the value and every other
\* entry is as before (under SpecHeaders).
C9_EmptyValueIgnored ==
  lastStep.op = "appendRawHeader" =>
    IF lastStep.value = ""
    THEN m_customHeaders = lastStep.before
    ELSE /\ DOMAIN m_customHeaders = DOMAIN lastStep.before \cup {lastStep.name}
         /\ m_customHeaders[lastStep.name] = lastStep.value
         /\ \A n \in DOMAIN lastStep.before \ {lastStep.name} :
              m_customHeaders[n] = lastStep.before[n]

C9_Witness ==
  /\ lastStep.op = "appendRawHeader"
  /\ lastStep.value = ""
  /\ lastStep.name \in DOMAIN lastStep.before
  /\ m_customHeaders[lastStep.name] = "v1"

\* C10: with a positive timeout a progress tick restarts the countdown from
\* the whole timeout and re-emits progress with its arguments, and the timer
\* fires only after a whole timeout without a start or a progress tick
\* (under Spec).
C10_ProgressRestartsTimer ==
  /\ (lastStep.op = "progressInternal" /\ m_timer.interval > 0) =>
       /\ m_timer.active
       /\ m_timer.remaining = m_timer.interval
  /\ lastStep.op = "progressInternal" =>
       emitted = [signal |-> "progress", received |-> lastStep.received,
                  total |-> lastStep.total]
  /\ (lastStep.op = "timeout" /\ m_timer.interval > 0) =>
       quiet >= m_timer.interval

C10_Witness ==
  /\ lastStep.op = "progressInternal"
  /\ lastStep.left = 1
  /\ m_timer.remaining = 2
  /\ emitted.signal = "progress"

\* C11: a step that emits completed leaves the getters returning the error,
\* the body and the content type of the reply whose finished() it was, and
\* every other step of a live process (dispatch, progress, cancel, timer,
\* redirect hop) leaves what the getters return unchanged (under Spec).
C11_LastOutcomeKept ==
  [][~crashed' =>
       IF emitted'.signal = "completed"
       THEN /\ lastStep'.op = "finished"
            /\ lastOutputError' = lastStep'.error
            /\ lastOutputData' = lastStep'.data
            /\ lastContentType' = lastStep'.contentType
            /\ emitted'.error = lastOutputError'
            /\ emitted'.data = lastOutputData'
       ELSE UNCHANGED <<lastOutputError, lastOutputData, lastContentType>>
    ]_vars

C11_Witness ==
  /\ lastStep.op = "cancel"
  /\ lastStep.active # NULL
  /\ replies[lastStep.active].hop = 1
  /\ replies[lastStep.active].chain = 2
  /\ 1 \in terminated
  /\ lastOutputData = "body"
  /\ lastContentType = "text/html"
  /\ lastOutputError = NoError

\* C12: against servers that always redirect, finished() at every hop n
\* starts the operation of hop n + 1 of the same chain and makes it the
\* active one; the chain keeps an operation in flight, is never terminated,
\* and completed is never emitted (under SpecLoop).
C12_RedirectLoopUnbounded ==
  /\ lastStep.op = "finished" =>
       /\ m_activeReply = Len(replies)
       /\ m_activeReply \in Running
       /\ replies[m_activeReply].chain = replies[lastStep.reply].chain
       /\ replies[m_activeReply].hop = replies[lastStep.reply].hop + 1
  /\ \A d \in 1..dispatched :
       /\ \E r \in Running : replies[r].chain = d
       /\ completedCount[d] = 0
  /\ terminated = {}
  /\ emitted.signal # "completed"

C12_Witness ==
  /\ lastStep.op = "finished"
  /\ replies[lastStep.reply].hop = 2
  /\ replies[m_activeReply].hop = 3
  /\ m_activeReply \in Running
  /\ completedCount = <<0>>

\* C13: a call of cancel() while m_activeReply is null changes neither the
\* active reply, the timer, the stored body and credentials, the last
\* outcome, the custom headers nor any reply, and emits no signal
\* (under Spec).
C13_IdleCancelNoOp ==
  [][(lastStep'.op = "cancel" /\ m_activeReply = NULL) =>
       /\ UNCHANGED <<m_activeReply, m_timer, m_customHeaders, m_inputData,
                      m_targetProtected, m_targetUsername, m_targetPassword,
                      m_lastOutputData, m_lastContentType, m_lastOutputError,
                      replies, completedCount, terminated, crashed>>
       /\ emitted'.signal = "none"
    ]_vars

C13_Witness ==
  /\ lastStep.op = "cancel"
  /\ lastStep.active = NULL
  /\ m_activeReply = NULL
  /\ Running # {}
  /\ m_timer.active
  /\ \A r \in Running : ~replies[r].aborted
  /\ lastOutputData = "body"

\* C14: every start of a transport operation restarts the timer with a whole
\* countdown of the timeout of the dispatch that started the chain: the
\* dispatch itself, and every redirect follow-up, whatever was left of the
\* countdown of the hop before (under SpecBudget).
C14_BudgetPerHop ==
  /\ lastStep.op = "manipulateData" =>
       /\ m_timer.active
       /\ m_timer.remaining = lastStep.timeout
       /\ quiet = 0
  /\ (/\ lastStep.op = "finished"
      /\ QUrlIsValid(lastStep.redirect)
      /\ ~crashed) =>
       /\ m_activeReply = Len(replies)
       /\ replies[m_activeReply].chain = replies[lastStep.reply].chain
       /\ m_timer.active
       /\ m_timer.remaining = TimeoutOfCall(replies[lastStep.reply].chain)
       /\ quiet = 0

\* C15: every redirect follow-up carries the body and the credentials
\* (protected flag, username, password) of the first operation of its chain,
\* which are those of the dispatch that started the chain
\* (under SpecReplay).
C15_FollowUpReplaysDispatch ==
  \A r \in ReplyIds, q \in ReplyIds :
    (replies[r].chain = replies[q].chain /\ replies[q].hop = 0) =>
      /\ replies[r].data = replies[q].data
      /\ replies[r].protected = replies[q].protected
      /\ replies[r].username = replies[q].username
      /\ replies[r].password = replies[q].password

\* C16: whenever finished() has run, m_activeReply was non-null and was the
\* reply whose finished signal it handled, and no reply that is still in
\* flight has been handed to deleteLater() (under Spec).
C16_FinishedIsActive ==
  /\ lastStep.op = "finished" =>
       /\ lastStep.active # NULL
       /\ lastStep.active = lastStep.reply
  /\ \A r \in Running : ~replies[r].doomed

\* C17: whenever the timer is armed m_activeReply is non-null, and the timer
\* never fires while m_activeReply is null (under Spec).
C17_ArmedOnlyWhenActive ==
  /\ m_timer.active => m_activeReply # NULL
  /\ lastStep.op = "timeout" => lastStep.active # NULL

\* C18: with a positive timeout, if progress ticks stop at some point then
\* every reply in flight gets its finished() run: no reply stays in flight
\* for ever in silence (under SpecLive, with its fairness).
C18_NoSilentHang ==
  (<>[](lastStep.op # "progressInternal")) =>
    \A r \in 1..MaxRepliesLive :
      [](r \in Running => <>(r \in ReplyIds /\ replies[r].state = "finished"))

\* C19: the headers of a request are fixed when it is started: no step, an
\* appendRawHeader least of all, changes the headers of a request already
\* sent; a redirect follow-up carries exactly the headers of the request
\* that was redirected; and a dispatch sends every custom header appended
\* before it (under SpecHeaders).
C19_HeadersSnapshot ==
  [][/\ \A r \in ReplyIds :
          replies'[r].request.headers = replies[r].request.headers
     /\ lastStep'.op = "appendRawHeader" => replies' = replies
     /\ (lastStep'.op = "finished" /\ Len(replies') > Len(replies)) =>
          replies'[Len(replies')].request.headers =
            replies[lastStep'.reply].request.headers
     /\ (lastStep'.op = "manipulateData" /\ Len(replies') > Len(replies)) =>
          \A n \in DOMAIN m_customHeaders :
            replies'[Len(replies')].request.headers[n] = m_customHeaders[n]
    ]_vars

C19_Witness ==
  /\ lastStep.op = "finished"
  /\ m_activeReply = 2
  /\ replies[2].hop = 1
  /\ replies[2].request.url.host # replies[1].request.url.host
  /\ replies[1].request.headers = NoHeaders
  /\ replies[2].request.headers = NoHeaders
  /\ RawHeader(m_customHeaders, "X-Auth") = "v1"

\* C20: a manipulateData call with a method that is none of GET, POST, PUT
\* and DELETE starts no reply, leaves m_activeReply and every reply as they
\* were, does not arm a timer that was not armed and emits nothing; it stores
\* the body, the credentials and the timer interval it was called with; and
\* its chain never has a reply and never gets completed (under SpecMethod).
C20_UnsupportedMethod ==
  [][/\ (lastStep'.op = "manipulateData"
         /\ lastStep'.operation \notin Startable) =>
          /\ replies' = replies
          /\ m_activeReply' = m_activeReply
          /\ m_timer'.active => m_timer.active
          /\ emitted'.signal = "none"
          /\ m_inputData' = lastStep'.data
          /\ m_targetProtected' = lastStep'.cred.protected
          /\ m_targetUsername' = lastStep'.cred.username
          /\ m_targetPassword' = lastStep'.cred.password
          /\ m_timer'.interval = lastStep'.timeout
     /\ \A d \in 1..dispatched' :
          (\A r \in 1..Len(replies') :
             ~(replies'[r].chain = d /\ replies'[r].hop = 0)) =>
            /\ \A r \in 1..Len(replies') : replies'[r].chain # d
            /\ completedCount'[d] = 0
            /\ d \notin terminated'
    ]_vars

C20_Witness ==
  /\ lastStep.op = "manipulateData"
  /\ lastStep.operation = HeadOperation
  /\ dispatched = 2
  /\ Len(replies) = 1
  /\ m_activeReply = 1
  /\ replies[1].state = "running"
  /\ replies[1].data = ""
  /\ ~replies[1].protected
  /\ m_inputData = "d2"
  /\ m_targetProtected
  /\ m_timer.interval = 0
  /\ m_timer.active

====
